---- MODULE Spec2Model ----
(***************************************************************************)
(* A model of asgiref/wsgi.py: WsgiToAsgi / WsgiToAsgiInstance, the        *)
(* adapter that runs a WSGI application behind an ASGI connection.         *)
(*                                                                         *)
(* Each connection has two threads of control: the coroutine               *)
(* WsgiToAsgiInstance.__call__ on the event loop (position pc) and the     *)
(* worker thread that sync_to_async starts for run_wsgi_app (position      *)
(* wpc).  The WSGI application is a black box: whenever its code runs it   *)
(* chooses among calling start_response, yielding a chunk, ending its      *)
(* iteration and raising.  Text is modelled as a sequence of one-character *)
(* strings so that str.split, int, str.lower and str.encode are computed.  *)
(***************************************************************************)
EXTENDS Integers, Sequences, FiniteSets, TLC

\* ------------------------------------------------------------------ bounds
\* The application yields at most MaxChunks chunks in one run.
MaxChunks == 2

\* The application calls start_response at most MaxStartCalls times in one run.
MaxStartCalls == 2

\* ------------------------------------------------------------- connections
\* The connections served through one WsgiToAsgi factory.
Conns == {"c1", "c2"}

VARIABLES
    scope,             \* [Conns -> ASGI scope]                (self.scope)
    inbound,           \* [Conns -> Seq(message)]   what receive() will yield
    nread,             \* [Conns -> Nat]            receive() calls made
    message,           \* [Conns -> message]        the message __call__ read
    pc,                \* [Conns -> position of the __call__ coroutine]
    wpc,               \* [Conns -> position of the run_wsgi_app worker]
    response_started,  \* [Conns -> BOOLEAN]        self.response_started
    response_start,    \* [Conns -> record]         self.response_start
    output,            \* [Conns -> chunk]          the loop variable output
    pending,           \* [Conns -> Seq(message)]   sync_send calls not yet completed
    sent,              \* [Conns -> Seq(message)]   messages the sink accepted
    exc,               \* [Conns -> exception]      the exception the run raised
    produced,          \* [Conns -> Seq(chunk)]     chunks the application yielded
    ncalls,            \* [Conns -> Nat]            start_response calls made
    lastCall,          \* [Conns -> record]         the latest start_response call
    environ            \* [Conns -> environ]        what build_environ returned

vars == <<scope, inbound, nread, message, pc, wpc, response_started,
          response_start, output, pending, sent, exc, produced, ncalls, lastCall,
          environ>>

\* ------------------------------------------------------------------- text
\* "200 OK", "404 Not Found", "OK" (no space), "abc x" (no number).
Status200 == <<"2", "0", "0", " ", "O", "K">>
Status404 == <<"4", "0", "4", " ", "N", "o", "t", " ", "F", "o", "u", "n", "d">>
StatusNoSpace == <<"O", "K">>
StatusNoNumber == <<"a", "b", "c", " ", "x">>
Statuses == {Status200, Status404, StatusNoSpace, StatusNoNumber}

\* Header lists an application passes: none, [("X-A", "1")], [("X-\u00c9", "1")].
HeaderXA == <<<<"X", "-", "A">>, <<"1">>>>
HeaderNonAscii == <<<<"X", "-", "U+00C9">>, <<"1">>>>
HeaderLists == {<<>>, <<HeaderXA>>, <<HeaderNonAscii>>}

AsciiChars ==
    {"0", "1", "2", "3", "4", "5", "6", "7", "8", "9", " ", "-", "_", ",",
     "a", "b", "c", "d", "e", "f", "k", "n", "o", "t", "u", "x",
     "A", "F", "K", "N", "O", "X"}

\* int() of one decimal digit.
DigitValue(ch) ==
    CASE ch = "0" -> 0 [] ch = "1" -> 1 [] ch = "2" -> 2 [] ch = "3" -> 3
      [] ch = "4" -> 4 [] ch = "5" -> 5 [] ch = "6" -> 6 [] ch = "7" -> 7
      [] ch = "8" -> 8 [] ch = "9" -> 9

IsDigit(ch) == ch \in {"0", "1", "2", "3", "4", "5", "6", "7", "8", "9"}

\* str.lower() of one character ("U+00C9" is the one non-ASCII character used).
UpperLetters ==
    <<"A", "B", "C", "D", "E", "F", "G", "H", "I", "J", "K", "L", "M",
      "N", "O", "P", "Q", "R", "S", "T", "U", "V", "W", "X", "Y", "Z">>
LowerLetters ==
    <<"a", "b", "c", "d", "e", "f", "g", "h", "i", "j", "k", "l", "m",
      "n", "o", "p", "q", "r", "s", "t", "u", "v", "w", "x", "y", "z">>

LowerChar(ch) ==
    IF \E i \in 1..Len(UpperLetters) : UpperLetters[i] = ch
    THEN LowerLetters[CHOOSE i \in 1..Len(UpperLetters) : UpperLetters[i] = ch]
    ELSE IF ch = "U+00C9" THEN "U+00E9" ELSE ch

\* str.upper() of one character.
UpperChar(ch) ==
    IF \E i \in 1..Len(LowerLetters) : LowerLetters[i] = ch
    THEN UpperLetters[CHOOSE i \in 1..Len(LowerLetters) : LowerLetters[i] = ch]
    ELSE IF ch = "U+00E9" THEN "U+00C9" ELSE ch

\* name.lower()
Lower(s) == [i \in 1..Len(s) |-> LowerChar(s[i])]

\* name.upper()
Upper(s) == [i \in 1..Len(s) |-> UpperChar(s[i])]

\* s.replace("-", "_")
ReplaceDash(s) == [i \in 1..Len(s) |-> IF s[i] = "-" THEN "_" ELSE s[i]]

\* bytes.decode("latin1"): byte n is character n, so the characters of the
\* text are the bytes, one for one; it never fails.
DecodeLatin1(b) == [i \in 1..Len(b) |-> b[i]]

\* Whether b.decode("ascii") succeeds; when it does the characters are the bytes.
AsciiDecodable(b) == \A i \in 1..Len(b) : b[i] \in AsciiChars

\* b.decode("ascii") when it succeeds.
DecodeAscii(b) == [i \in 1..Len(b) |-> b[i]]

\* str(n) for a natural number n.
RECURSIVE DecimalOf(_)
DecimalOf(n) ==
    LET digit == SubSeq(<<"0", "1", "2", "3", "4", "5", "6", "7", "8", "9">>,
                        (n % 10) + 1, (n % 10) + 1)
    IN  IF n < 10 THEN digit ELSE DecimalOf(n \div 10) \o digit

\* Whether s.encode("ascii") succeeds; when it does the bytes are the characters.
AsciiEncodable(s) == \A i \in 1..Len(s) : s[i] \in AsciiChars

\* Index of the first " " of s, 0 when there is none.
FirstSpace(s) ==
    IF \E i \in 1..Len(s) : s[i] = " "
    THEN CHOOSE i \in 1..Len(s) : s[i] = " " /\ \A j \in 1..(i - 1) : s[j] # " "
    ELSE 0

\* int(tok) for a non-empty string of decimal digits.
RECURSIVE IntOf(_)
IntOf(tok) ==
    IF tok = <<>> THEN 0
    ELSE 10 * IntOf(SubSeq(tok, 1, Len(tok) - 1)) + DigitValue(tok[Len(tok)])

\* status_code, _ = status.split(" ", 1) succeeds and int(status_code) succeeds.
StatusParses(status) ==
    /\ FirstSpace(status) > 1
    /\ \A i \in 1..(FirstSpace(status) - 1) : IsDigit(status[i])

\* int(status.split(" ", 1)[0])
StatusCode(status) == IntOf(SubSeq(status, 1, FirstSpace(status) - 1))

\* Every name.lower().encode("ascii") and value.encode("ascii") succeeds.
HeadersEncode(response_headers) ==
    \A i \in 1..Len(response_headers) :
        /\ AsciiEncodable(Lower(response_headers[i][1]))
        /\ AsciiEncodable(response_headers[i][2])

\* [(name.lower().encode("ascii"), value.encode("ascii")) for name, value in ...]
EncodeHeaders(response_headers) ==
    [i \in 1..Len(response_headers) |->
        <<Lower(response_headers[i][1]), response_headers[i][2]>>]

\* ------------------------------------------------------------- exceptions
NoError == "none"
ScopeError == "ValueError: WSGI wrapper received a non-HTTP scope"
MessageError == "ValueError: WSGI wrapper received a non-HTTP-request message"
RestartError == "ValueError: You cannot call start_response a second time without exc_info"
NoneSubscriptError == "TypeError: 'NoneType' object is not subscriptable"
StatusError == "ValueError: status"
EncodeError == "UnicodeEncodeError"
MissingStartError == "AttributeError: 'WsgiToAsgiInstance' object has no attribute 'response_start'"
SinkError == "SinkError"

\* The exceptions an application raises itself or carries in exc_info.
AppErrors == {"AppError1", "AppError2"}

\* exc_info=None
NoExcInfo == "None"
ExcInfos == {NoExcInfo} \cup AppErrors

\* --------------------------------------------------------------- messages
ScopeTypes == {"http", "websocket"}

HttpRequest(more) == [type |-> "http.request", more_body |-> more]
HttpDisconnect == [type |-> "http.disconnect"]
InboundMessages == {HttpRequest(FALSE), HttpRequest(TRUE), HttpDisconnect}

\* No message has been read yet.
NoMessage == [type |-> "<none>"]

\* The instance has no attribute response_start.
Unset == [type |-> "<unset>"]

\* Body chunks an application yields.
Chunks == {"", "a", "b"}
NoOutput == "<none>"

\* No start_response call has been made.
NoCall == [made |-> FALSE]

\* ------------------------------------------------------------- the scope
\* Header names and values of a scope, as bytes.
NameContentLength == <<"c", "o", "n", "t", "e", "n", "t", "-", "l", "e", "n", "g", "t", "h">>
NameContentLengthMixed == <<"C", "o", "n", "t", "e", "n", "t", "-", "L", "e", "n", "g", "t", "h">>
NameContentType == <<"c", "o", "n", "t", "e", "n", "t", "-", "t", "y", "p", "e">>
NameXFoo == <<"x", "-", "f", "o", "o">>
NameXFooMixed == <<"X", "-", "F", "o", "o">>

\* The (name, value) pairs a scope's header list is made of.
HeaderPairs ==
    {<<NameContentLength, <<"5">>>>, <<NameContentLengthMixed, <<"5">>>>,
     <<NameContentType, <<"a">>>>,
     <<NameXFoo, <<"a">>>>, <<NameXFoo, <<"b">>>>,
     <<NameXFooMixed, <<"a">>>>, <<NameXFooMixed, <<"b">>>>}

\* A scope's header list has at most MaxHeaders headers.
MaxHeaders == 3

ScopeHeaderLists == UNION {[1..n -> HeaderPairs] : n \in 0..MaxHeaders}

\* A scope with the keys every HTTP scope has and no optional key.
PlainScope(type) ==
    [type |-> type, method |-> <<"G", "E", "T">>, path |-> <<"/">>,
     query_string |-> <<>>, http_version |-> <<"1", ".", "1">>]

\* The scopes of the connections of Spec: no headers, no optional key.
PlainScopes == {PlainScope(type) : type \in ScopeTypes}

\* HTTP scopes with a header list, with the optional keys scheme, server and
\* client, and with a query string that is or is not ASCII.
HeaderScopes ==
    {[type |-> "http", method |-> <<"G", "E", "T">>, path |-> <<"/">>,
      query_string |-> <<"a">>, http_version |-> <<"1", ".", "1">>, headers |-> h] :
         h \in ScopeHeaderLists}

OptionalKeyScopes ==
    {[type |-> "http", method |-> <<"P", "O", "S", "T">>, path |-> <<"/">>,
      query_string |-> q, http_version |-> <<"1", ".", "1">>, headers |-> h,
      scheme |-> <<"h", "t", "t", "p", "s">>, server |-> <<<<"e", "x", "a", "m", "p", "l", "e">>, 8000>>,
      client |-> <<<<"1", "0", ".", "0", ".", "0", ".", "1">>, 1234>>] :
         q \in {<<"a">>, <<"U+00C9">>}, h \in {<<>>, <<<<NameXFoo, <<"a">>>>>>}}

EnvironScopes == {PlainScope("http")} \cup HeaderScopes \cup OptionalKeyScopes

\* ----------------------------------------------------------- build_environ
\* The keys of the environ.
KeyRequestMethod == <<"R", "E", "Q", "U", "E", "S", "T", "_", "M", "E", "T", "H", "O", "D">>
KeyScriptName == <<"S", "C", "R", "I", "P", "T", "_", "N", "A", "M", "E">>
KeyPathInfo == <<"P", "A", "T", "H", "_", "I", "N", "F", "O">>
KeyQueryString == <<"Q", "U", "E", "R", "Y", "_", "S", "T", "R", "I", "N", "G">>
KeyServerProtocol == <<"S", "E", "R", "V", "E", "R", "_", "P", "R", "O", "T", "O", "C", "O", "L">>
KeyWsgiVersion == <<"w", "s", "g", "i", ".", "v", "e", "r", "s", "i", "o", "n">>
KeyWsgiUrlScheme == <<"w", "s", "g", "i", ".", "u", "r", "l", "_", "s", "c", "h", "e", "m", "e">>
KeyWsgiInput == <<"w", "s", "g", "i", ".", "i", "n", "p", "u", "t">>
KeyWsgiErrors == <<"w", "s", "g", "i", ".", "e", "r", "r", "o", "r", "s">>
KeyWsgiMultithread == <<"w", "s", "g", "i", ".", "m", "u", "l", "t", "i", "t", "h", "r", "e", "a", "d">>
KeyWsgiMultiprocess == <<"w", "s", "g", "i", ".", "m", "u", "l", "t", "i", "p", "r", "o", "c", "e", "s", "s">>
KeyWsgiRunOnce == <<"w", "s", "g", "i", ".", "r", "u", "n", "_", "o", "n", "c", "e">>
KeyServerName == <<"S", "E", "R", "V", "E", "R", "_", "N", "A", "M", "E">>
KeyServerPort == <<"S", "E", "R", "V", "E", "R", "_", "P", "O", "R", "T">>
KeyRemoteAddr == <<"R", "E", "M", "O", "T", "E", "_", "A", "D", "D", "R">>
KeyContentLength == <<"C", "O", "N", "T", "E", "N", "T", "_", "L", "E", "N", "G", "T", "H">>
KeyContentType == <<"C", "O", "N", "T", "E", "N", "T", "_", "T", "Y", "P", "E">>
KeyHttpPrefix == <<"H", "T", "T", "P", "_">>

\* build_environ has not run, or it raised.
NoEnviron == [k \in {} |-> <<>>]

DecodeError == "UnicodeDecodeError"

\* environ[key] = value
Put(env, key, value) ==
    [k \in DOMAIN env \cup {key} |-> IF k = key THEN value ELSE env[k]]

\* message.get("body", b"")
MessageBody(m) == IF "body" \in DOMAIN m THEN m.body ELSE <<>>

\* BytesIO(b)
BytesIO(b) == [bytesio |-> b]

\* Lines 49-62: the dict literal.
BaseEnviron(sc, m) ==
    (KeyRequestMethod :> sc.method)
    @@ (KeyScriptName :> <<>>)
    @@ (KeyPathInfo :> sc.path)
    @@ (KeyQueryString :> DecodeAscii(sc.query_string))
    @@ (KeyServerProtocol :> (<<"H", "T", "T", "P", "/">> \o sc.http_version))
    @@ (KeyWsgiVersion :> <<1, 0>>)
    @@ (KeyWsgiUrlScheme :>
            IF "scheme" \in DOMAIN sc THEN sc.scheme ELSE <<"h", "t", "t", "p">>)
    @@ (KeyWsgiInput :> BytesIO(MessageBody(m)))
    @@ (KeyWsgiErrors :> BytesIO(<<>>))
    @@ (KeyWsgiMultithread :> TRUE)
    @@ (KeyWsgiMultiprocess :> TRUE)
    @@ (KeyWsgiRunOnce :> FALSE)

\* Lines 63-69: server name and port.
WithServer(env, sc) ==
    IF "server" \in DOMAIN sc
    THEN Put(Put(env, KeyServerName, sc.server[1]),
             KeyServerPort, DecimalOf(sc.server[2]))
    ELSE Put(Put(env, KeyServerName, <<"l", "o", "c", "a", "l", "h", "o", "s", "t">>), KeyServerPort, <<"8", "0">>)

\* Lines 71-72: the remote address.
WithClient(env, sc) ==
    IF "client" \in DOMAIN sc THEN Put(env, KeyRemoteAddr, sc.client[1]) ELSE env

\* Lines 76-82: the environ key of a header name (already decoded).
corrected_name(name) ==
    IF name = NameContentLength THEN KeyContentLength
    ELSE IF name = NameContentType THEN KeyContentType
    ELSE KeyHttpPrefix \o ReplaceDash(Upper(name))

\* The fold with the new value put before the value already stored.
RECURSIVE FoldHeaders_newFirst(_, _)
FoldHeaders_newFirst(env, headers) ==
    IF headers = <<>> THEN env
    ELSE LET key == corrected_name(DecodeLatin1(headers[1][1]))
             value == DecodeLatin1(headers[1][2])
         IN  FoldHeaders_newFirst(
                 Put(env, key,
                     IF key \in DOMAIN env
                     THEN value \o <<",">> \o env[key] ELSE value),
                 Tail(headers))

\* Lines 75-87: the loop over the headers.
RECURSIVE FoldHeaders(_, _)
FoldHeaders(env, headers) ==
    IF headers = <<>> THEN env
    ELSE LET key == corrected_name(DecodeLatin1(headers[1][1]))
             value == DecodeLatin1(headers[1][2])
         IN  FoldHeaders(
                 Put(env, key,
                     IF key \in DOMAIN env
                     THEN env[key] \o <<",">> \o value ELSE value),
                 Tail(headers))

\* self.scope.get("headers", [])
ScopeHeaders(sc) == IF "headers" \in DOMAIN sc THEN sc.headers ELSE <<>>

\* Whether build_environ raises: scope["query_string"].decode("ascii").
BuildEnvironRaises(sc) == ~AsciiDecodable(sc.query_string)

\* WsgiToAsgiInstance.build_environ, when it does not raise.
build_environ(sc, m) ==
    FoldHeaders(WithClient(WithServer(BaseEnviron(sc, m), sc), sc),
                ScopeHeaders(sc))

\* --------------------------------------------------------- start_response
\* start_response with the started check raising the usage error instead of
\* the exception exc_info carries.
start_response_usageError(started, record, status, response_headers, exc_info) ==
    IF started \/ (record # Unset /\ exc_info = NoExcInfo)
    THEN [raised |-> RestartError, response_start |-> record]
    ELSE IF ~StatusParses(status)
    THEN [raised |-> StatusError, response_start |-> record]
    ELSE IF ~HeadersEncode(response_headers)
    THEN [raised |-> EncodeError, response_start |-> record]
    ELSE [raised |-> NoError,
          response_start |-> [type |-> "http.response.start",
                              status |-> StatusCode(status),
                              headers |-> EncodeHeaders(response_headers)]]

\* start_response without the check for a second call without exc_info.
start_response_noRestartCheck(started, record, status, response_headers, exc_info) ==
    IF started
    THEN [raised |-> IF exc_info = NoExcInfo THEN NoneSubscriptError ELSE exc_info,
          response_start |-> record]
    ELSE IF ~StatusParses(status)
    THEN [raised |-> StatusError, response_start |-> record]
    ELSE IF ~HeadersEncode(response_headers)
    THEN [raised |-> EncodeError, response_start |-> record]
    ELSE [raised |-> NoError,
          response_start |-> [type |-> "http.response.start",
                              status |-> StatusCode(status),
                              headers |-> EncodeHeaders(response_headers)]]

\* The record start_response builds from arguments that parse and encode.
StartRecord(status, response_headers) ==
    [type |-> "http.response.start",
     status |-> StatusCode(status),
     headers |-> EncodeHeaders(response_headers)]

\* start_response storing the new record before the started check raises.
start_response_storeThenRaise(started, record, status, response_headers, exc_info) ==
    IF started
    THEN [raised |-> IF exc_info = NoExcInfo THEN NoneSubscriptError ELSE exc_info,
          response_start |-> IF StatusParses(status) /\ HeadersEncode(response_headers)
                             THEN StartRecord(status, response_headers)
                             ELSE record]
    ELSE IF record # Unset /\ exc_info = NoExcInfo
    THEN [raised |-> RestartError, response_start |-> record]
    ELSE IF ~StatusParses(status)
    THEN [raised |-> StatusError, response_start |-> record]
    ELSE IF ~HeadersEncode(response_headers)
    THEN [raised |-> EncodeError, response_start |-> record]
    ELSE [raised |-> NoError,
          response_start |-> StartRecord(status, response_headers)]

\* start_response storing the status before the headers are encoded.
start_response_partialStore(started, record, status, response_headers, exc_info) ==
    IF started
    THEN [raised |-> IF exc_info = NoExcInfo THEN NoneSubscriptError ELSE exc_info,
          response_start |-> record]
    ELSE IF record # Unset /\ exc_info = NoExcInfo
    THEN [raised |-> RestartError, response_start |-> record]
    ELSE IF ~StatusParses(status)
    THEN [raised |-> StatusError, response_start |-> record]
    ELSE IF ~HeadersEncode(response_headers)
    THEN [raised |-> EncodeError,
          response_start |-> [type |-> "http.response.start",
                              status |-> StatusCode(status),
                              headers |-> <<>>]]
    ELSE [raised |-> NoError,
          response_start |-> StartRecord(status, response_headers)]

\* start_response keeping the record of the first call when called again
\* with exc_info.
start_response_keepFirst(started, record, status, response_headers, exc_info) ==
    IF started
    THEN [raised |-> IF exc_info = NoExcInfo THEN NoneSubscriptError ELSE exc_info,
          response_start |-> record]
    ELSE IF record # Unset /\ exc_info = NoExcInfo
    THEN [raised |-> RestartError, response_start |-> record]
    ELSE IF ~StatusParses(status)
    THEN [raised |-> StatusError, response_start |-> record]
    ELSE IF ~HeadersEncode(response_headers)
    THEN [raised |-> EncodeError, response_start |-> record]
    ELSE [raised |-> NoError,
          response_start |-> IF record # Unset THEN record
                             ELSE StartRecord(status, response_headers)]

\* WsgiToAsgiInstance.start_response as a function of the instance state and
\* the arguments: the exception it raises (NoError when it returns) and the
\* value of self.response_start afterwards.
start_response(started, record, status, response_headers, exc_info) ==
    IF started
    THEN \* raise exc_info[1].with_traceback(exc_info[2]); None[1] is a TypeError
         [raised |-> IF exc_info = NoExcInfo THEN NoneSubscriptError ELSE exc_info,
          response_start |-> record]
    ELSE IF record # Unset /\ exc_info = NoExcInfo
    THEN [raised |-> RestartError, response_start |-> record]
    ELSE IF ~StatusParses(status)
    THEN [raised |-> StatusError, response_start |-> record]
    ELSE IF ~HeadersEncode(response_headers)
    THEN [raised |-> EncodeError, response_start |-> record]
    ELSE [raised |-> NoError,
          response_start |-> [type |-> "http.response.start",
                              status |-> StatusCode(status),
                              headers |-> EncodeHeaders(response_headers)]]

\* {"type": "http.response.body", "body": output, "more_body": True}
BodyMessage(chunk) ==
    [type |-> "http.response.body", body |-> chunk, more_body |-> TRUE]

\* The closing message with more_body True.
ClosingMessage_moreBody ==
    [type |-> "http.response.body", body |-> "", more_body |-> TRUE]

\* {"type": "http.response.body"}
ClosingMessage == [type |-> "http.response.body"]

\* An http.response.body message's body and more_body as its receiver reads
\* them: a missing key is b"" and False.
BodyOf(m) == IF "body" \in DOMAIN m THEN m.body ELSE ""
MoreBodyOf(m) == IF "more_body" \in DOMAIN m THEN m.more_body ELSE FALSE

\* ------------------------------------------------------------------ state
\* Positions of the worker at which application code is running: inside the
\* call wsgi_application(environ, start_response), or inside a step of the
\* iteration over what it returned.
AppRunning == {"app_call", "app_next"}

\* Positions at which the worker is blocked inside a sync_send call, and
\* where it continues when the call returns.
Blocked == {"wait_start_loop", "wait_body", "wait_start_close", "wait_close"}

Resume(position) ==
    CASE position = "wait_start_loop" -> "send_body"
      [] position = "wait_body" -> "app_next"
      [] position = "wait_start_close" -> "send_close"
      [] position = "wait_close" -> "returned"

\* The state after the factory has constructed an instance for each of the
\* connections in arriving (response_started False, no response_start).
InitOver(arriving, scopes, firstMessages) ==
    /\ \E sc \in [arriving -> scopes] :
           scope = [c \in Conns |->
                       IF c \in arriving THEN sc[c] ELSE PlainScope("http")]
    /\ \E first \in [arriving -> firstMessages] :
           inbound = [c \in Conns |->
                         <<IF c \in arriving THEN first[c] ELSE HttpRequest(FALSE),
                           HttpDisconnect>>]
    /\ nread = [c \in Conns |-> 0]
    /\ message = [c \in Conns |-> NoMessage]
    /\ pc = [c \in Conns |-> IF c \in arriving THEN "call" ELSE "unused"]
    /\ wpc = [c \in Conns |-> "idle"]
    /\ response_started = [c \in Conns |-> FALSE]
    /\ response_start = [c \in Conns |-> Unset]
    /\ output = [c \in Conns |-> NoOutput]
    /\ pending = [c \in Conns |-> <<>>]
    /\ sent = [c \in Conns |-> <<>>]
    /\ exc = [c \in Conns |-> NoError]
    /\ produced = [c \in Conns |-> <<>>]
    /\ ncalls = [c \in Conns |-> 0]
    /\ lastCall = [c \in Conns |-> NoCall]
    /\ environ = [c \in Conns |-> NoEnviron]

\* The connections in arriving arrive with a scope without headers and any
\* first message.
InitWith(arriving) == InitOver(arriving, PlainScopes, InboundMessages)

Init == InitWith({"c1"})

inputVars == <<scope>>
callVars == <<inbound, nread, message, pc>>
instanceVars == <<response_started, response_start>>
appVars == <<produced, ncalls, lastCall>>

\* An exception leaves run_wsgi_app: the worker ends with it.
Raise(c, e) ==
    /\ wpc' = [wpc EXCEPT ![c] = "raised"]
    /\ exc' = [exc EXCEPT ![c] = e]

\* self.sync_send(m) from the worker: AsyncToSync hands send(m) to the event
\* loop and blocks the worker until that call has completed.
sync_send(c, m, waiting) ==
    /\ pending' = [pending EXCEPT ![c] = Append(@, m)]
    /\ wpc' = [wpc EXCEPT ![c] = waiting]

\* ------------------------------------------------ WsgiToAsgiInstance.__call__
\* The scope check left out.
NonHttpScope_never(sc) == FALSE

\* if scope["type"] != "http"
NonHttpScope(sc) == sc.type # "http"

\* The message check left out.
NonRequestMessage_never(m) == FALSE

\* if message["type"] != "http.request"
NonRequestMessage(m) == m.type # "http.request"

\* Lines 33-35: the scope check.
CheckScope(c) ==
    /\ pc[c] = "call"
    /\ IF NonHttpScope(scope[c])
       THEN /\ pc' = [pc EXCEPT ![c] = "failed"]
            /\ exc' = [exc EXCEPT ![c] = ScopeError]
       ELSE /\ pc' = [pc EXCEPT ![c] = "receive"]
            /\ UNCHANGED exc
    /\ UNCHANGED <<scope, environ, inbound, nread, message, wpc, instanceVars, output,
                   pending, sent, appVars>>

\* Line 37: message = await receive()
Receive(c) ==
    /\ pc[c] = "receive"
    /\ inbound[c] # <<>>
    /\ message' = [message EXCEPT ![c] = Head(inbound[c])]
    /\ inbound' = [inbound EXCEPT ![c] = Tail(@)]
    /\ nread' = [nread EXCEPT ![c] = @ + 1]
    /\ pc' = [pc EXCEPT ![c] = "check"]
    /\ UNCHANGED <<scope, environ, wpc, instanceVars, output, pending, sent, exc, appVars>>

\* Lines 38-43: the message check, then run_wsgi_app is started on a worker
\* and awaited.
CheckMessage(c) ==
    /\ pc[c] = "check"
    /\ IF NonRequestMessage(message[c])
       THEN /\ pc' = [pc EXCEPT ![c] = "failed"]
            /\ exc' = [exc EXCEPT ![c] = MessageError]
            /\ UNCHANGED wpc
       ELSE /\ pc' = [pc EXCEPT ![c] = "await"]
            /\ wpc' = [wpc EXCEPT ![c] = "start"]
            /\ UNCHANGED exc
    /\ UNCHANGED <<scope, environ, inbound, nread, message, instanceVars, output,
                   pending, sent, appVars>>

\* The await with the worker's exception swallowed.
AwaitCompletes_swallow(c) ==
    /\ pc[c] = "await"
    /\ wpc[c] \in {"returned", "raised"}
    /\ pc' = [pc EXCEPT ![c] = "done"]
    /\ UNCHANGED <<scope, environ, inbound, nread, message, wpc, instanceVars, output,
                   pending, sent, exc, appVars>>

\* Line 43: await self.run_wsgi_app(message) completes when the worker has
\* ended, returning or raising what the worker returned or raised.
AwaitCompletes(c) ==
    /\ pc[c] = "await"
    /\ wpc[c] \in {"returned", "raised"}
    /\ pc' = [pc EXCEPT ![c] = IF wpc[c] = "returned" THEN "done" ELSE "failed"]
    /\ UNCHANGED <<scope, environ, inbound, nread, message, wpc, instanceVars, output,
                   pending, sent, exc, appVars>>

\* ------------------------------------------ WsgiToAsgiInstance.run_wsgi_app
\* Lines 124-126: the environ is built and the application is called.
CallApplication(c) ==
    /\ wpc[c] = "start"
    /\ IF BuildEnvironRaises(scope[c])
       THEN Raise(c, DecodeError) /\ UNCHANGED environ
       ELSE /\ environ' = [environ EXCEPT ![c] = build_environ(scope[c], message[c])]
            /\ wpc' = [wpc EXCEPT ![c] = "app_call"]
            /\ UNCHANGED exc
    /\ UNCHANGED <<inputVars, callVars, instanceVars, output, pending, sent,
                   appVars>>

\* The first response with response_started kept in one place for all the
\* connections (one instance, or a class attribute, shared by them).
SendStartIfFirst_sharedFlag(c, waiting, next) ==
    IF response_started[c]
    THEN /\ wpc' = [wpc EXCEPT ![c] = next]
         /\ UNCHANGED <<response_started, pending, exc>>
    ELSE /\ response_started' = [d \in Conns |-> TRUE]
         /\ IF response_start[c] = Unset
            THEN Raise(c, MissingStartError) /\ UNCHANGED pending
            ELSE sync_send(c, response_start[c], waiting) /\ UNCHANGED exc

\* The first response without setting response_started.
SendStartIfFirst_noFlag(c, waiting, next) ==
    IF response_started[c]
    THEN /\ wpc' = [wpc EXCEPT ![c] = next]
         /\ UNCHANGED <<response_started, pending, exc>>
    ELSE /\ UNCHANGED response_started
         /\ IF response_start[c] = Unset
            THEN Raise(c, MissingStartError) /\ UNCHANGED pending
            ELSE sync_send(c, response_start[c], waiting) /\ UNCHANGED exc

\* The first response skipped when there is no response_start to send.
SendStartIfFirst_skipMissing(c, waiting, next) ==
    IF response_started[c]
    THEN /\ wpc' = [wpc EXCEPT ![c] = next]
         /\ UNCHANGED <<response_started, pending, exc>>
    ELSE /\ response_started' = [response_started EXCEPT ![c] = TRUE]
         /\ IF response_start[c] = Unset
            THEN wpc' = [wpc EXCEPT ![c] = next] /\ UNCHANGED <<pending, exc>>
            ELSE sync_send(c, response_start[c], waiting) /\ UNCHANGED exc

\* Lines 128-130 and 135-137: if the response has not started, set the flag
\* and send self.response_start (reading the attribute raises when the
\* application never called start_response); continue at next.
SendStartIfFirst(c, waiting, next) ==
    IF response_started[c]
    THEN /\ wpc' = [wpc EXCEPT ![c] = next]
         /\ UNCHANGED <<response_started, pending, exc>>
    ELSE /\ response_started' = [response_started EXCEPT ![c] = TRUE]
         /\ IF response_start[c] = Unset
            THEN Raise(c, MissingStartError) /\ UNCHANGED pending
            ELSE sync_send(c, response_start[c], waiting) /\ UNCHANGED exc

\* Lines 126-130: the loop has an output; first response, if it is the first.
LoopFirstResponse(c) ==
    /\ wpc[c] = "loop"
    /\ SendStartIfFirst(c, "wait_start_loop", "send_body")
    /\ UNCHANGED <<inputVars, environ, callVars, response_start, output, sent, appVars>>

\* The chunk sent only when it is not empty.
SendBody_skipEmpty(c) ==
    /\ wpc[c] = "send_body"
    /\ IF output[c] = ""
       THEN wpc' = [wpc EXCEPT ![c] = "app_next"] /\ UNCHANGED pending
       ELSE sync_send(c, BodyMessage(output[c]), "wait_body")
    /\ UNCHANGED <<inputVars, environ, callVars, instanceVars, output, sent, exc, appVars>>

\* The chunk handed to the event loop without waiting for the send to complete.
SendBody_noWait(c) ==
    /\ wpc[c] = "send_body"
    /\ pending' = [pending EXCEPT ![c] = Append(@, BodyMessage(output[c]))]
    /\ wpc' = [wpc EXCEPT ![c] = "app_next"]
    /\ UNCHANGED <<inputVars, environ, callVars, instanceVars, output, sent, exc, appVars>>

\* Lines 131-133: the chunk is sent with more_body True.
SendBody(c) ==
    /\ wpc[c] = "send_body"
    /\ sync_send(c, BodyMessage(output[c]), "wait_body")
    /\ UNCHANGED <<inputVars, environ, callVars, instanceVars, output, sent, exc, appVars>>

\* Lines 135-137: the iteration has ended; first response, if none was sent.
CloseFirstResponse(c) ==
    /\ wpc[c] = "close"
    /\ SendStartIfFirst(c, "wait_start_close", "send_close")
    /\ UNCHANGED <<inputVars, environ, callVars, response_start, output, sent, appVars>>

\* Line 138: the closing message is sent; run_wsgi_app returns after it.
SendClose(c) ==
    /\ wpc[c] = "send_close"
    /\ sync_send(c, ClosingMessage, "wait_close")
    /\ UNCHANGED <<inputVars, environ, callVars, instanceVars, output, sent, exc, appVars>>

\* --------------------------------------------------- the event loop's side
\* The send(m) that a sync_send call handed over completes: the sink has the
\* message, and the worker blocked in that call continues.
SinkAccepts(c) ==
    /\ pending[c] # <<>>
    /\ sent' = [sent EXCEPT ![c] = Append(@, Head(pending[c]))]
    /\ pending' = [pending EXCEPT ![c] = Tail(@)]
    /\ wpc' = [wpc EXCEPT ![c] = IF @ \in Blocked THEN Resume(@) ELSE @]
    /\ UNCHANGED <<inputVars, environ, callVars, instanceVars, output, exc, appVars>>

\* The send(m) raises: the sink does not have the message, and the exception
\* is raised in the worker at its sync_send call.
SinkRaises(c) ==
    /\ pending[c] # <<>>
    /\ wpc[c] \in Blocked
    /\ pending' = [pending EXCEPT ![c] = Tail(@)]
    /\ Raise(c, SinkError)
    /\ UNCHANGED <<inputVars, environ, callVars, instanceVars, output, sent, appVars>>

\* -------------------------------------------------------- the application
\* start_response setting response_started when it stores the record.
AppCallsStartResponse_setsFlag(c, status, response_headers, exc_info) ==
    /\ wpc[c] \in AppRunning
    /\ ncalls[c] < MaxStartCalls
    /\ LET r == start_response(response_started[c], response_start[c],
                               status, response_headers, exc_info)
       IN  /\ response_start' = [response_start EXCEPT ![c] = r.response_start]
           /\ lastCall' = [lastCall EXCEPT ![c] =
                  [made |-> TRUE, status |-> status, headers |-> response_headers,
                   exc_info |-> exc_info, started |-> response_started[c],
                   before |-> response_start[c], raised |-> r.raised,
                   nsent |-> Len(sent[c])]]
           /\ IF r.raised # NoError
              THEN Raise(c, r.raised) /\ UNCHANGED response_started
              ELSE /\ response_started' = [response_started EXCEPT ![c] = TRUE]
                   /\ UNCHANGED <<wpc, exc>>
    /\ ncalls' = [ncalls EXCEPT ![c] = @ + 1]
    /\ UNCHANGED <<inputVars, environ, callVars, output, pending, sent, produced>>

\* start_response handing the record it stores to the event loop at once.
AppCallsStartResponse_sendsAtOnce(c, status, response_headers, exc_info) ==
    /\ wpc[c] \in AppRunning
    /\ ncalls[c] < MaxStartCalls
    /\ LET r == start_response(response_started[c], response_start[c],
                               status, response_headers, exc_info)
       IN  /\ response_start' = [response_start EXCEPT ![c] = r.response_start]
           /\ lastCall' = [lastCall EXCEPT ![c] =
                  [made |-> TRUE, status |-> status, headers |-> response_headers,
                   exc_info |-> exc_info, started |-> response_started[c],
                   before |-> response_start[c], raised |-> r.raised,
                   nsent |-> Len(sent[c])]]
           /\ IF r.raised # NoError
              THEN Raise(c, r.raised) /\ UNCHANGED pending
              ELSE /\ pending' = [pending EXCEPT ![c] = Append(@, r.response_start)]
                   /\ UNCHANGED <<wpc, exc>>
    /\ ncalls' = [ncalls EXCEPT ![c] = @ + 1]
    /\ UNCHANGED <<inputVars, environ, callVars, response_started, output, sent, produced>>

\* The application calls start_response(status, response_headers, exc_info).
\* An exception start_response raises propagates out of the application.
AppCallsStartResponse(c, status, response_headers, exc_info) ==
    /\ wpc[c] \in AppRunning
    /\ ncalls[c] < MaxStartCalls
    /\ LET r == start_response(response_started[c], response_start[c],
                               status, response_headers, exc_info)
       IN  /\ response_start' = [response_start EXCEPT ![c] = r.response_start]
           /\ lastCall' = [lastCall EXCEPT ![c] =
                  [made |-> TRUE, status |-> status, headers |-> response_headers,
                   exc_info |-> exc_info, started |-> response_started[c],
                   before |-> response_start[c], raised |-> r.raised,
                   nsent |-> Len(sent[c])]]
           /\ IF r.raised # NoError
              THEN Raise(c, r.raised)
              ELSE UNCHANGED <<wpc, exc>>
    /\ ncalls' = [ncalls EXCEPT ![c] = @ + 1]
    /\ UNCHANGED <<inputVars, environ, callVars, response_started, output, pending,
                   sent, produced>>

\* The application's call returns the iterable.
AppReturnsIterable(c) ==
    /\ wpc[c] = "app_call"
    /\ wpc' = [wpc EXCEPT ![c] = "app_next"]
    /\ UNCHANGED <<inputVars, environ, callVars, instanceVars, output, pending, sent,
                   exc, appVars>>

\* The iteration yields a chunk.
AppYields(c, chunk) ==
    /\ wpc[c] = "app_next"
    /\ Len(produced[c]) < MaxChunks
    /\ output' = [output EXCEPT ![c] = chunk]
    /\ produced' = [produced EXCEPT ![c] = Append(@, chunk)]
    /\ wpc' = [wpc EXCEPT ![c] = "loop"]
    /\ UNCHANGED <<inputVars, environ, callVars, instanceVars, pending, sent, exc,
                   ncalls, lastCall>>

\* The iteration ends.
AppStops(c) ==
    /\ wpc[c] = "app_next"
    /\ wpc' = [wpc EXCEPT ![c] = "close"]
    /\ UNCHANGED <<inputVars, environ, callVars, instanceVars, output, pending, sent,
                   exc, appVars>>

\* The application raises an exception of its own.
AppRaises(c, e) ==
    /\ wpc[c] \in AppRunning
    /\ Raise(c, e)
    /\ UNCHANGED <<inputVars, environ, callVars, instanceVars, output, pending, sent,
                   appVars>>

\* ---------------------------------------------------------- specification
Next ==
    \E c \in Conns :
        \/ CheckScope(c)
        \/ Receive(c)
        \/ CheckMessage(c)
        \/ AwaitCompletes(c)
        \/ CallApplication(c)
        \/ LoopFirstResponse(c)
        \/ SendBody(c)
        \/ CloseFirstResponse(c)
        \/ SendClose(c)
        \/ SinkAccepts(c)
        \/ SinkRaises(c)
        \/ \E status \in Statuses, response_headers \in HeaderLists,
              exc_info \in ExcInfos :
               AppCallsStartResponse(c, status, response_headers, exc_info)
        \/ AppReturnsIterable(c)
        \/ \E chunk \in Chunks : AppYields(c, chunk)
        \/ AppStops(c)
        \/ \E e \in AppErrors : AppRaises(c, e)

Spec == Init /\ [][Next]_vars

\* The event loop keeps running ready coroutines and callbacks, the worker
\* thread keeps running, and the application's call and iteration terminate:
\* a connection that can take a step eventually takes one.
ConnectionStep(c) ==
    \/ CheckScope(c) \/ Receive(c) \/ CheckMessage(c) \/ AwaitCompletes(c)
    \/ CallApplication(c) \/ LoopFirstResponse(c) \/ SendBody(c)
    \/ CloseFirstResponse(c) \/ SendClose(c) \/ SinkAccepts(c) \/ SinkRaises(c)
    \/ \E status \in Statuses, response_headers \in HeaderLists,
          exc_info \in ExcInfos :
           AppCallsStartResponse(c, status, response_headers, exc_info)
    \/ AppReturnsIterable(c)
    \/ \E chunk \in Chunks : AppYields(c, chunk)
    \/ AppStops(c)
    \/ \E e \in AppErrors : AppRaises(c, e)

FairSpec == Init /\ [][Next]_vars /\ \A c \in Conns : WF_vars(ConnectionStep(c))

\* Two connections served at the same time through one factory, with the
\* same application: each yields at most MaxConcurrentChunks chunks b"a",
\* calls start_response with one of two statuses and no headers, and raises
\* one error.
MaxConcurrentChunks == 1

ConcurrentInit == InitOver(Conns, PlainScopes, {HttpRequest(FALSE)})

ConcurrentNext ==
    \E c \in Conns :
        \/ CheckScope(c)
        \/ Receive(c)
        \/ CheckMessage(c)
        \/ AwaitCompletes(c)
        \/ CallApplication(c)
        \/ LoopFirstResponse(c)
        \/ SendBody(c)
        \/ CloseFirstResponse(c)
        \/ SendClose(c)
        \/ SinkAccepts(c)
        \/ SinkRaises(c)
        \/ \E status \in {Status200, Status404}, exc_info \in {NoExcInfo, "AppError1"} :
               AppCallsStartResponse(c, status, <<>>, exc_info)
        \/ AppReturnsIterable(c)
        \/ Len(produced[c]) < MaxConcurrentChunks /\ AppYields(c, "a")
        \/ AppStops(c)
        \/ AppRaises(c, "AppError2")

ConcurrentSpec == ConcurrentInit /\ [][ConcurrentNext]_vars

\* One connection from its arrival to the application's call, over scopes
\* with header lists and optional keys: the runs of build_environ.
EnvironInit == InitOver({"c1"}, EnvironScopes, {HttpRequest(FALSE)})

EnvironNext ==
    \E c \in Conns :
        \/ CheckScope(c)
        \/ Receive(c)
        \/ CheckMessage(c)
        \/ CallApplication(c)

EnvironSpec == EnvironInit /\ [][EnvironNext]_vars

\* ------------------------------------------------------------- properties
IsStart(m) == m.type = "http.response.start"
IsBody(m) == m.type = "http.response.body"
IsChunkMessage(m) == IsBody(m) /\ MoreBodyOf(m)
IsTerminal(m) == IsBody(m) /\ ~MoreBodyOf(m)

\* The bodies of the chunk messages of s, in order.
ChunkBodies(s) ==
    LET chunkMessages == SelectSeq(s, IsChunkMessage)
    IN  [i \in 1..Len(chunkMessages) |-> BodyOf(chunkMessages[i])]

IsPrefix(s, t) == Len(s) <= Len(t) /\ SubSeq(t, 1, Len(s)) = s

HasTerminal(s) == \E i \in 1..Len(s) : IsTerminal(s[i])

\* C1: when a connection's run has completed without error, the messages the
\* sink received are one response start, then body messages with more_body
\* true, then exactly one body message with more_body false, which is last;
\* and in no state does the sink hold a message after a terminal one.
C1_OutboundSequence ==
    \A c \in Conns :
        /\ pc[c] = "done" =>
               /\ Len(sent[c]) >= 2
               /\ IsStart(sent[c][1])
               /\ \A i \in 2..(Len(sent[c]) - 1) : IsChunkMessage(sent[c][i])
               /\ IsTerminal(sent[c][Len(sent[c])])
        /\ \A i \in 1..Len(sent[c]) : IsTerminal(sent[c][i]) => i = Len(sent[c])

C1_Witness ==
    \E c \in Conns : pc[c] = "done" /\ Len(sent[c]) = 4

\* C2: when the application called start_response once, with "200 OK" and no
\* headers, and the run has completed, the sink received exactly
\* start(200, []), then one message per yielded chunk carrying that chunk and
\* more_body true, in the order yielded, then a message with empty body and
\* more_body false.
C2_ChunksForwarded ==
    \A c \in Conns :
        (/\ pc[c] = "done"
         /\ ncalls[c] = 1
         /\ lastCall[c].status = Status200
         /\ lastCall[c].headers = <<>>)
        => /\ Len(sent[c]) = Len(produced[c]) + 2
           /\ sent[c][1] = [type |-> "http.response.start", status |-> 200,
                            headers |-> <<>>]
           /\ \A i \in 1..Len(produced[c]) :
                  /\ IsBody(sent[c][i + 1])
                  /\ BodyOf(sent[c][i + 1]) = produced[c][i]
                  /\ MoreBodyOf(sent[c][i + 1]) = TRUE
           /\ IsBody(sent[c][Len(sent[c])])
           /\ BodyOf(sent[c][Len(sent[c])]) = ""
           /\ MoreBodyOf(sent[c][Len(sent[c])]) = FALSE

C2_Witness ==
    \E c \in Conns :
        /\ pc[c] = "done"
        /\ ncalls[c] = 1
        /\ lastCall[c].status = Status200
        /\ lastCall[c].headers = <<>>
        /\ produced[c] = <<"", "a">>

\* C3: at most one sync_send call of a connection is incomplete at a time;
\* whenever the application's iteration is running, every chunk it has
\* yielded so far has been accepted by the sink; and the chunks the sink has
\* received are always a prefix of the chunks yielded, in the same order.
C3_Backpressure ==
    \A c \in Conns :
        /\ Len(pending[c]) <= 1
        /\ wpc[c] = "app_next" =>
               pending[c] = <<>> /\ ChunkBodies(sent[c]) = produced[c]
        /\ IsPrefix(ChunkBodies(sent[c]), produced[c])

C3_Witness ==
    \E c \in Conns :
        /\ wpc[c] = "wait_body"
        /\ Len(produced[c]) = 2
        /\ pending[c] = <<BodyMessage(produced[c][2])>>
        /\ ChunkBodies(sent[c]) = <<produced[c][1]>>

\* C4: in every state the sink holds no body message that is not preceded by
\* a response start, and at most one response start; and no step takes
\* response_started from true back to false.
C4_StartState ==
    \A c \in Conns :
        /\ \A i \in 1..Len(sent[c]) :
               IsBody(sent[c][i]) => \E j \in 1..(i - 1) : IsStart(sent[c][j])
        /\ Cardinality({i \in 1..Len(sent[c]) : IsStart(sent[c][i])}) <= 1

C4_StartOnceNoRevert ==
    /\ []C4_StartState
    /\ [][\A c \in Conns : response_started[c] => response_started'[c]]_vars

C4_Witness ==
    \E c \in Conns :
        /\ pc[c] = "failed"
        /\ response_started[c]
        /\ Len(sent[c]) >= 2

\* C5: after a start_response call made with exc_info while response_started
\* was true, the call raised the exception that exc_info carries,
\* response_start is what it was before the call, the run ends with that
\* exception, and the sink has received nothing since the call (and never a
\* terminal message).
C5_ReraiseAfterStart ==
    \A c \in Conns :
        (/\ lastCall[c].made
         /\ lastCall[c].started
         /\ lastCall[c].exc_info # NoExcInfo)
        => /\ lastCall[c].raised = lastCall[c].exc_info
           /\ response_start[c] = lastCall[c].before
           /\ wpc[c] = "raised"
           /\ exc[c] = lastCall[c].exc_info
           /\ pc[c] \in {"await", "failed"}
           /\ pending[c] = <<>>
           /\ Len(sent[c]) = lastCall[c].nsent
           /\ ~HasTerminal(sent[c])

C5_Witness ==
    \E c \in Conns :
        /\ lastCall[c].made
        /\ lastCall[c].started
        /\ lastCall[c].exc_info = "AppError2"
        /\ pc[c] = "failed"
        /\ Len(sent[c]) >= 2

\* C6: after a start_response call made without exc_info while response_start
\* was set and response_started was false, the call raised the usage error,
\* response_start is what it was before the call, and the sink has received
\* nothing since the call.
C6_RestartRefused ==
    \A c \in Conns :
        (/\ lastCall[c].made
         /\ ~lastCall[c].started
         /\ lastCall[c].before # Unset
         /\ lastCall[c].exc_info = NoExcInfo)
        => /\ lastCall[c].raised = RestartError
           /\ exc[c] = RestartError
           /\ response_start[c] = lastCall[c].before
           /\ pending[c] = <<>>
           /\ Len(sent[c]) = lastCall[c].nsent

C6_Witness ==
    \E c \in Conns :
        /\ lastCall[c].made
        /\ ~lastCall[c].started
        /\ lastCall[c].before # Unset
        /\ lastCall[c].exc_info = NoExcInfo
        /\ pc[c] = "failed"

\* C7: while the application has not called start_response, nothing has been
\* handed to the sink; the run does not complete normally; and once the loop
\* or the close has tried to send the first response it has ended with the
\* error of the missing response_start.
C7_NoStartNoOutput ==
    \A c \in Conns :
        ncalls[c] = 0 =>
            /\ sent[c] = <<>>
            /\ pending[c] = <<>>
            /\ pc[c] # "done"
            /\ wpc[c] \notin {"send_body", "send_close", "returned"} \cup Blocked
            /\ response_started[c] =>
                   wpc[c] = "raised" /\ exc[c] = MissingStartError

C7_Witness ==
    \E c \in Conns :
        /\ ncalls[c] = 0
        /\ Len(produced[c]) = 1
        /\ pc[c] = "failed"
        /\ exc[c] = MissingStartError

\* C8: a connection whose scope type is not "http" never reads an inbound
\* message, never starts the worker or the application, never hands a message
\* to the sink, and its run ends with the scope error.
C8_NonHttpScope ==
    \A c \in Conns :
        scope[c].type # "http" =>
            /\ nread[c] = 0
            /\ Len(inbound[c]) = 2
            /\ message[c] = NoMessage
            /\ wpc[c] = "idle"
            /\ ncalls[c] = 0
            /\ sent[c] = <<>> /\ pending[c] = <<>>
            /\ pc[c] \in {"unused", "call", "failed"}
            /\ pc[c] = "failed" => exc[c] = ScopeError

C8_Witness ==
    \E c \in Conns : scope[c].type = "websocket" /\ pc[c] = "failed"

\* C9: a connection whose first inbound message is not an http.request has
\* read exactly that one message, never starts the worker or the application,
\* never hands a message to the sink, and its run ends with the message error.
C9_NonRequestMessage ==
    \A c \in Conns :
        (message[c] # NoMessage /\ message[c].type # "http.request") =>
            /\ nread[c] = 1
            /\ Len(inbound[c]) = 1
            /\ wpc[c] = "idle"
            /\ ncalls[c] = 0
            /\ sent[c] = <<>> /\ pending[c] = <<>>
            /\ pc[c] \in {"check", "failed"}
            /\ pc[c] = "failed" => exc[c] = MessageError

C9_Witness ==
    \E c \in Conns : message[c] = HttpDisconnect /\ pc[c] = "failed"

\* C10: a run that returned normally has sent the terminal message, a run
\* that raised has raised an error and has not sent it, no error is raised
\* once the terminal message is sent, and every connection that arrives
\* eventually ends in one of the two ways.
C10_Ends ==
    \A c \in Conns :
        /\ pc[c] = "done" =>
               /\ exc[c] = NoError
               /\ sent[c] # <<>> /\ IsTerminal(sent[c][Len(sent[c])])
        /\ pc[c] = "failed" => exc[c] # NoError /\ ~HasTerminal(sent[c])
        /\ HasTerminal(sent[c]) =>
               exc[c] = NoError /\ wpc[c] = "returned" /\ pending[c] = <<>>

C10_NoPartialSuccess ==
    /\ []C10_Ends
    /\ \A c \in Conns : pc[c] = "call" ~> pc[c] \in {"done", "failed"}

C10_Witness ==
    \E c \in Conns : pc[c] = "done" /\ HasTerminal(sent[c]) /\ Len(produced[c]) = 1

\* C11 (as stated): once a record has been captured, no later start_response
\* call changes it.
C11_RecordImmutable ==
    \A c \in Conns :
        (lastCall[c].made /\ lastCall[c].before # Unset)
        => response_start[c] = lastCall[c].before

\* C11 (amended): a captured record is left unchanged by every later
\* start_response call made without exc_info and by every call made after
\* the response has started; a call with exc_info made before the response
\* has started whose arguments parse replaces it.
C11_RecordChangesOnlyByExcInfo ==
    \A c \in Conns :
        (lastCall[c].made /\ lastCall[c].before # Unset) =>
            /\ (lastCall[c].exc_info = NoExcInfo \/ lastCall[c].started)
                   => response_start[c] = lastCall[c].before
            /\ response_start[c] # lastCall[c].before
                   => /\ lastCall[c].exc_info # NoExcInfo
                      /\ ~lastCall[c].started
                      /\ lastCall[c].raised = NoError
                      /\ sent[c] = <<>> \/ sent[c][1] = response_start[c]

C11_Witness ==
    \E c \in Conns :
        /\ lastCall[c].made
        /\ lastCall[c].before # Unset
        /\ lastCall[c].started
        /\ lastCall[c].exc_info # NoExcInfo
        /\ StatusParses(lastCall[c].status)
        /\ HeadersEncode(lastCall[c].headers)
        /\ StartRecord(lastCall[c].status, lastCall[c].headers) # lastCall[c].before
        /\ response_start[c] = lastCall[c].before

\* C15: no start_response call changes what has been handed to the sink or
\* response_started; the first message of a connection is handed over only
\* by the loop holding a chunk or by the close after the iteration, and it
\* is response_start; and when the application raised before its first chunk
\* the sink has received nothing.
C15_CallStep ==
    \A c \in Conns :
        /\ ncalls'[c] # ncalls[c] =>
               /\ sent'[c] = sent[c]
               /\ pending'[c] = pending[c]
               /\ response_started'[c] = response_started[c]
        /\ (sent[c] = <<>> /\ pending[c] = <<>> /\ pending'[c] # <<>>) =>
               /\ wpc[c] \in {"loop", "close"}
               /\ pending'[c] = <<response_start[c]>>
               /\ IsStart(response_start[c])

C15_RaisedBeforeChunk ==
    \A c \in Conns :
        (/\ ncalls[c] > 0
         /\ produced[c] = <<>>
         /\ wpc[c] = "raised"
         /\ exc[c] \in AppErrors)
        => sent[c] = <<>> /\ pending[c] = <<>> /\ ~response_started[c]

C16_SecondCallUsageError ==
    \A c \in Conns :
        (/\ lastCall[c].made
         /\ lastCall[c].before # Unset
         /\ lastCall[c].exc_info = NoExcInfo)
        => /\ lastCall[c].raised = RestartError
           /\ response_start[c] = lastCall[c].before

\* C18: whenever application code is running, response_started is true
\* exactly when the sink has accepted the response start.
C18_FlagMatchesSink ==
    \A c \in Conns :
        wpc[c] \in AppRunning =>
            (response_started[c] <=> \E i \in 1..Len(sent[c]) : IsStart(sent[c][i]))

C18_Witness ==
    \E c \in Conns :
        /\ wpc[c] = "app_next"
        /\ response_started[c]
        /\ Len(sent[c]) = 2
        /\ IsStart(sent[c][1])

\* C19: after a start_response call that raised while parsing the status or
\* encoding the headers, response_start and response_started are what they
\* were before the call and the sink has received nothing since.
C19_FailedParseKeepsState ==
    \A c \in Conns :
        (lastCall[c].made /\ lastCall[c].raised \in {StatusError, EncodeError})
        => /\ response_start[c] = lastCall[c].before
           /\ response_started[c] = lastCall[c].started
           /\ pending[c] = <<>>
           /\ Len(sent[c]) = lastCall[c].nsent

C19_Witness ==
    \E c \in Conns :
        /\ lastCall[c].made
        /\ lastCall[c].raised = EncodeError
        /\ lastCall[c].before # Unset
        /\ pc[c] = "failed"

\* C20: a start_response call with exc_info made before the response has
\* started, with arguments that parse, returns and stores the record of its
\* own arguments, whatever was captured before; the response start the sink
\* receives is the record stored by the last call that returned.
C20_LastCallWins ==
    \A c \in Conns :
        /\ (/\ lastCall[c].made
            /\ ~lastCall[c].started
            /\ lastCall[c].exc_info # NoExcInfo
            /\ StatusParses(lastCall[c].status)
            /\ HeadersEncode(lastCall[c].headers))
           => /\ lastCall[c].raised = NoError
              /\ response_start[c] =
                     [type |-> "http.response.start",
                      status |-> StatusCode(lastCall[c].status),
                      headers |-> EncodeHeaders(lastCall[c].headers)]
        /\ \A i \in 1..Len(sent[c]) :
               IsStart(sent[c][i]) => sent[c][i] = response_start[c]

C20_Witness ==
    \E c \in Conns :
        /\ pc[c] = "done"
        /\ ncalls[c] = 2
        /\ lastCall[c].before # Unset
        /\ lastCall[c].raised = NoError
        /\ lastCall[c].before # response_start[c]
        /\ sent[c][1] = response_start[c]
        /\ sent[c][1].status = 404

\* The decoded values of the headers whose environ key is key, in order.
RECURSIVE ValuesFor(_, _)
ValuesFor(headers, key) ==
    IF headers = <<>> THEN <<>>
    ELSE (IF corrected_name(DecodeLatin1(headers[1][1])) = key
          THEN <<DecodeLatin1(headers[1][2])>> ELSE <<>>)
         \o ValuesFor(Tail(headers), key)

\* ",".join(values) for a non-empty list of values.
RECURSIVE JoinComma(_)
JoinComma(values) ==
    IF Len(values) = 1 THEN values[1]
    ELSE values[1] \o <<",">> \o JoinComma(Tail(values))

\* The environ keys the headers of a scope are stored under.
HeaderKeys(sc) ==
    {corrected_name(DecodeLatin1(ScopeHeaders(sc)[i][1])) :
         i \in 1..Len(ScopeHeaders(sc))}

\* C13 (as stated): once the environ is built, every header whose name is
\* content-length or content-type in any letter case is stored under
\* CONTENT_LENGTH or CONTENT_TYPE and creates no HTTP_CONTENT_LENGTH or
\* HTTP_CONTENT_TYPE key, every other header is stored under HTTP_ and its
\* name uppercased with "-" replaced by "_", and the header list
\* [("Content-Length", "5")] gives CONTENT_LENGTH = "5".
C13_HeaderNameMapping ==
    \A c \in Conns :
        DOMAIN environ[c] # {} =>
            /\ \A i \in 1..Len(ScopeHeaders(scope[c])) :
                   LET name == ScopeHeaders(scope[c])[i][1]
                   IN  /\ Lower(name) = NameContentLength =>
                              /\ KeyContentLength \in DOMAIN environ[c]
                              /\ (KeyHttpPrefix \o KeyContentLength)
                                     \notin DOMAIN environ[c]
                       /\ Lower(name) = NameContentType =>
                              /\ KeyContentType \in DOMAIN environ[c]
                              /\ (KeyHttpPrefix \o KeyContentType)
                                     \notin DOMAIN environ[c]
                       /\ Lower(name) \notin {NameContentLength, NameContentType} =>
                              (KeyHttpPrefix \o ReplaceDash(Upper(name)))
                                  \in DOMAIN environ[c]
            /\ ScopeHeaders(scope[c]) = <<<<NameContentLengthMixed, <<"5">>>>>> =>
                   /\ KeyContentLength \in DOMAIN environ[c]
                   /\ environ[c][KeyContentLength] = <<"5">>

\* C14: once the environ is built, the value under the key of each header is
\* the values of all the headers stored under that key, joined by commas in
\* the order of the header list; and the headers add keys only for
\* themselves and leave every other key as it was without them.
C14_DuplicateFolding ==
    \A c \in Conns :
        DOMAIN environ[c] # {} =>
            LET headers == ScopeHeaders(scope[c])
                unfolded == WithClient(WithServer(
                                BaseEnviron(scope[c], message[c]), scope[c]), scope[c])
            IN  /\ DOMAIN environ[c] = DOMAIN unfolded \cup HeaderKeys(scope[c])
                /\ \A key \in HeaderKeys(scope[c]) :
                       environ[c][key] = JoinComma(ValuesFor(headers, key))
                /\ \A key \in DOMAIN unfolded \ HeaderKeys(scope[c]) :
                       environ[c][key] = unfolded[key]

C14_Witness ==
    \E c \in Conns :
        /\ ScopeHeaders(scope[c]) =
               <<<<NameXFooMixed, <<"a">>>>, <<NameContentType, <<"a">>>>,
                 <<NameXFooMixed, <<"b">>>>>>
        /\ DOMAIN environ[c] # {}
        /\ environ[c][<<"H", "T", "T", "P", "_", "X", "_", "F", "O", "O">>] = <<"a", ",", "b">>
        /\ environ[c][KeyContentType] = <<"a">>

\* C17 (as stated): a connection whose first inbound message is an
\* http.request with more_body true fails: the worker and the application
\* are never started, the run does not complete normally, and no further
\* inbound message is read.
C17_MultiPartRequestRefused ==
    \A c \in Conns :
        (message[c].type = "http.request" /\ message[c].more_body) =>
            /\ wpc[c] = "idle"
            /\ pc[c] \in {"check", "failed"}
            /\ DOMAIN environ[c] = {}
            /\ nread[c] = 1

\* Everything the model holds for one connection.
ConnectionState(c) ==
    <<scope[c], inbound[c], nread[c], message[c], pc[c], wpc[c],
      response_started[c], response_start[c], output[c], pending[c], sent[c],
      exc[c], produced[c], ncalls[c], lastCall[c], environ[c]>>

\* What a connection's sink receives in a complete run, from the record and
\* the chunks of that connection alone.
OwnOutput(c) ==
    IF response_start[c] = Unset THEN <<>>
    ELSE <<response_start[c]>>
         \o [i \in 1..Len(produced[c]) |-> BodyMessage(produced[c][i])]
         \o <<ClosingMessage>>

\* C12: with two connections served concurrently, every step changes the
\* state of one connection only; what a connection has handed to its sink is
\* always the beginning, and after a normal return the whole, of the output
\* determined by its own record and its own chunks; and its flag and record
\* are set only by its own worker and its own start_response calls.
C12_OwnState ==
    \A c \in Conns :
        /\ IsPrefix(sent[c] \o pending[c], OwnOutput(c))
        /\ pc[c] = "done" => sent[c] = OwnOutput(c)
        /\ response_started[c] =>
               /\ wpc[c] \notin {"idle", "start", "app_call"}
               /\ produced[c] # <<>> \/ wpc[c] # "app_next"
        /\ response_start[c] # Unset => ncalls[c] > 0

C12_OneConnectionPerStep ==
    \E c \in Conns :
        \A d \in Conns \ {c} : ConnectionState(d)' = ConnectionState(d)

C12_Isolation ==
    /\ []C12_OwnState
    /\ [][C12_OneConnectionPerStep]_vars

C12_Witness ==
    /\ pc["c1"] = "done"
    /\ pc["c2"] = "failed"
    /\ exc["c2"] = "AppError2"
    /\ sent["c1"] = <<[type |-> "http.response.start", status |-> 200,
                       headers |-> <<>>],
                      BodyMessage("a"), ClosingMessage>>
    /\ sent["c2"] = <<[type |-> "http.response.start", status |-> 404,
                       headers |-> <<>>],
                      BodyMessage("a")>>
    /\ produced["c2"] = <<"a">>

====
